---- MODULE Spec2Model ----
(***************************************************************************)
(* A model of scripts/sheets_sync.py: the command-line tool that appends   *)
(* and updates task rows in a remote spreadsheet.  One action is one       *)
(* invocation of the tool (main): it parses a command, runs its handler    *)
(* against the local identifier cache and the remote store, prints its     *)
(* result and exits.                                                       *)
(*                                                                         *)
(* Text is modelled as a sequence of one-character strings, so that        *)
(* str.lower(), str.strip() and concatenation are computed, not assumed.   *)
(* An optional argument is None (the empty tuple) or Some(v) (<<v>>).      *)
(***************************************************************************)
EXTENDS Integers, Sequences, FiniteSets, TLC

(* ------------------------------ bounds -------------------------------- *)

\* Number of invocations of the tool in one behaviour.
MaxSteps == 1
\* Number of data rows the default spreadsheet may hold at the start.
MaxInitRows == 2
\* Number of spreadsheet identifiers the remote store can hand out.
MaxIds == 3
\* Largest --limit tried by the list command (the smallest is -1).
MaxLimit == 2
\* Invocations in one sequence of commands on a workspace.
MaxSeq == 2

(* ------------------------------- text --------------------------------- *)

sTalkspresso == <<"T", "a", "l", "k", "s", "p", "r", "e", "s", "s", "o">>
sMiller == <<"M", "i", "l", "l", "e", "r">>
sTalkLower == <<"t", "a", "l", "k", "s", "p", "r", "e", "s", "s", "o">>
sAcme == <<"A", "c", "m", "e">>
sFixBug == <<"F", "i", "x", " ", "B", "u", "g">>
sFixBugLower == <<"f", "i", "x", " ", "b", "u", "g">>
sDeploy == <<"D", "e", "p", "l", "o", "y">>
sActive == <<"a", "c", "t", "i", "v", "e">>
sActiveCap == <<"A", "c", "t", "i", "v", "e">>
sProject == <<"p", "r", "o", "j", "e", "c", "t">>
sProjectCap == <<"P", "r", "o", "j", "e", "c", "t">>
sCompleted == <<"c", "o", "m", "p", "l", "e", "t", "e", "d">>
sDone == <<"d", "o", "n", "e">>
sFirstNote == <<"[", "0", "1", "/", "0", "1", " ", "1", "0", ":", "0", "0", "]", " ", "f", "i", "r", "s", "t">>
sSecond == <<"s", "e", "c", "o", "n", "d">>
sPadded == <<" ", "x", " ">>
sProjectCreated == <<"P", "r", "o", "j", "e", "c", "t", " ", "c", "r", "e", "a", "t", "e", "d">>
sWeb == <<"W", "e", "b">>
sDesc == <<"d">>
sNewDesc == <<"n", "d">>
sHours == <<"1", ".", "5">>
sDate0 == <<"2", "0", "2", "6", "-", "0", "1", "-", "0", "1">>
sTime0 == <<"1", "0", ":", "0", "0">>
sEmpty == << >>
\* The em dash of log_task / create_task and the folder sign of
\* create_project, each one character of the program's text.
sDash == <<"EM DASH">>
sFolder == <<"FOLDER SIGN", " ">>

None == << >>
Some(v) == <<v>>

\* str.lower() on one character.
LowerChar(c) ==
    CASE c = "A" -> "a" [] c = "B" -> "b" [] c = "C" -> "c" [] c = "D" -> "d"
      [] c = "E" -> "e" [] c = "F" -> "f" [] c = "G" -> "g" [] c = "H" -> "h"
      [] c = "I" -> "i" [] c = "J" -> "j" [] c = "K" -> "k" [] c = "L" -> "l"
      [] c = "M" -> "m" [] c = "N" -> "n" [] c = "O" -> "o" [] c = "P" -> "p"
      [] c = "Q" -> "q" [] c = "R" -> "r" [] c = "S" -> "s" [] c = "T" -> "t"
      [] c = "U" -> "u" [] c = "V" -> "v" [] c = "W" -> "w" [] c = "X" -> "x"
      [] c = "Y" -> "y" [] c = "Z" -> "z" [] OTHER -> c

lower(s) == [i \in 1..Len(s) |-> LowerChar(s[i])]

IsSpace(c) == c \in {" ", "\n", "\t", "\r"}

RECURSIVE lstrip(_)
lstrip(s) == IF s # << >> /\ IsSpace(s[1]) THEN lstrip(Tail(s)) ELSE s

RECURSIVE rstrip(_)
rstrip(s) ==
    IF s # << >> /\ IsSpace(s[Len(s)]) THEN rstrip(SubSeq(s, 1, Len(s) - 1)) ELSE s

\* str.strip()
strip(s) == rstrip(lstrip(s))

DigitChar(n) ==
    CASE n = 0 -> "0" [] n = 1 -> "1" [] n = 2 -> "2" [] n = 3 -> "3" [] n = 4 -> "4"
      [] n = 5 -> "5" [] n = 6 -> "6" [] n = 7 -> "7" [] n = 8 -> "8" [] n = 9 -> "9"

\* %m, %d, %H, %M: two digits, zero padded.
TwoDigits(n) == <<DigitChar((n \div 10) % 10), DigitChar(n % 10)>>
\* %Y
FourDigits(n) == TwoDigits(n \div 100) \o TwoDigits(n % 100)

\* now.strftime("%Y-%m-%d")
strftime_date(now) ==
    FourDigits(now.year) \o <<"-">> \o TwoDigits(now.month) \o <<"-">> \o TwoDigits(now.day)
\* now.strftime("%H:%M")
strftime_time(now) == TwoDigits(now.hour) \o <<":">> \o TwoDigits(now.minute)
\* datetime.now().strftime("%m/%d %H:%M")
strftime_stamp(now) ==
    TwoDigits(now.month) \o <<"/">> \o TwoDigits(now.day) \o <<" ">>
        \o TwoDigits(now.hour) \o <<":">> \o TwoDigits(now.minute)

\* The values datetime.now() takes in the model.
Times ==
    { [year |-> 2026, month |-> 2, day |-> 2, hour |-> 11, minute |-> 11] }

(* --------------------------- configuration ---------------------------- *)

DEFAULT_SPREADSHEET_NAME == "Buzzbox Task Log"

\* WORKSPACE_SPREADSHEETS as a function on its keys.
WORKSPACE_SPREADSHEETS ==
    [w \in {sTalkspresso, sMiller} |->
        IF w = sTalkspresso THEN "Talkspresso Task Log" ELSE "Miller Task Log"]

HEADERS ==
    << <<"Date">>, <<"Time">>, <<"Workspace">>, <<"Project">>, <<"Task">>,
       <<"Description">>, <<"Est Hrs">>, <<"Actual Hrs">>, <<"Status">>, <<"Notes">> >>

\* `workspace and workspace in WORKSPACE_SPREADSHEETS`, workspace optional.
HasOwnSpreadsheet(workspace) ==
    /\ workspace # None
    /\ workspace[1] # sEmpty
    /\ workspace[1] \in DOMAIN WORKSPACE_SPREADSHEETS

DefaultIdFile == <<"task_log_sheet_id.txt">>

\* The table looked up without regard to letter case.
IdFileIgnoringCase(workspace) ==
    IF /\ workspace # None
       /\ \E k \in DOMAIN WORKSPACE_SPREADSHEETS : lower(k) = lower(workspace[1])
    THEN <<"task_log_sheet_id_">> \o lower(workspace[1]) \o <<".txt">>
    ELSE DefaultIdFile

\* The cache file path below CONFIG_DIR.
get_spreadsheet_id_file(workspace) ==
    IF HasOwnSpreadsheet(workspace)
    THEN <<"task_log_sheet_id_">> \o lower(workspace[1]) \o <<".txt">>
    ELSE DefaultIdFile

get_spreadsheet_name(workspace) ==
    IF HasOwnSpreadsheet(workspace)
    THEN WORKSPACE_SPREADSHEETS[workspace[1]]
    ELSE DEFAULT_SPREADSHEET_NAME

\* Every cache file the tool can name.
IdFiles ==
    {DefaultIdFile} \cup {get_spreadsheet_id_file(Some(w)) : w \in DOMAIN WORKSPACE_SPREADSHEETS}

(* ------------------------------- state -------------------------------- *)

VARIABLES
    files,      \* cache file path -> identifier held (NoFile: the file does not exist)
    drive,      \* remote store: identifier -> [state, name, rows]
    steps,      \* invocations so far
    cmd,        \* the command line of the last invocation
    stdout,     \* what the last invocation printed to standard output
    stderr,     \* what the last invocation printed to the error stream
    exitCode,   \* the last invocation's exit code
    trace       \* remote calls and cache writes of the last invocation, in order

vars == <<files, drive, steps, cmd, stdout, stderr, exitCode, trace>>

Ids == 1..MaxIds
\* get_spreadsheet_id returns None: no cache file.
NoFile == 0

(* ---------------------------- remote store ----------------------------- *)

\* What can go wrong in one invocation, besides a spreadsheet that no longer
\* exists: the credentials file is missing, or one remote call fails with an
\* HttpError (4xx/5xx other than a deleted object) or with another exception
\* (transport).  "read" and "write" fail the values().get and the
\* values().append / values().batchUpdate call of a command.
Faults ==
    { "none", "nocreds", "verify_http", "verify_other", "search_http",
      "search_other", "create", "headers", "read", "write" }

\* files().list(q = name, spreadsheet type, not trashed): the matching files.
SearchMatches(d, name) == { i \in Ids : d[i].state = "live" /\ d[i].name = name }

\* The identifier spreadsheets().create hands out: one never used before.
FreshIds(d) == { i \in Ids : d[i].state = "unused" }
NewId(d) == CHOOSE i \in FreshIds(d) : \A j \in FreshIds(d) : i <= j

\* values().get omits trailing empty cells of a row and trailing empty rows.
RECURSIVE TrimRow(_)
TrimRow(r) ==
    IF r # << >> /\ r[Len(r)] = sEmpty THEN TrimRow(SubSeq(r, 1, Len(r) - 1)) ELSE r

RECURSIVE TrimRows(_)
TrimRows(rows) ==
    IF rows # << >> /\ rows[Len(rows)] = << >>
    THEN TrimRows(SubSeq(rows, 1, Len(rows) - 1))
    ELSE rows

\* The row inserted right below the header, pushing the data rows down.
AppendRowBelowHeader(rows, row) ==
    IF rows = << >> THEN <<TrimRow(row)>>
    ELSE <<rows[1], TrimRow(row)>> \o Tail(rows)

\* values().append(range = "Tasks!A:J", INSERT_ROWS, values = [row]): the row
\* goes below the last row holding a value.
AppendRow(rows, row) == TrimRows(rows \o <<TrimRow(row)>>)

\* The column a letter of the A1 notation names.
ColumnIndex(letter) ==
    CASE letter = "A" -> 1 [] letter = "B" -> 2 [] letter = "C" -> 3 [] letter = "D" -> 4
      [] letter = "E" -> 5 [] letter = "F" -> 6 [] letter = "G" -> 7 [] letter = "H" -> 8
      [] letter = "I" -> 9 [] letter = "J" -> 10

\* One entry {"range": "Tasks!<letter><n>", "values": [[v]]} applied to the
\* rows, col being the letter's column.
SetCell(rows, n, col, v) ==
    LET padded == [i \in 1..(IF n > Len(rows) THEN n ELSE Len(rows)) |->
                      IF i <= Len(rows) THEN rows[i] ELSE << >>]
        old    == padded[n]
        wide   == [j \in 1..(IF col > Len(old) THEN col ELSE Len(old)) |->
                      IF j = col THEN v ELSE IF j <= Len(old) THEN old[j] ELSE sEmpty]
    IN  TrimRows([padded EXCEPT ![n] = TrimRow(wide)])

\* values().batchUpdate(data = updates): the entries applied in order.
RECURSIVE ApplyUpdates(_, _)
ApplyUpdates(rows, updates) ==
    IF updates = << >> THEN rows
    ELSE ApplyUpdates(SetCell(rows, updates[1].row, ColumnIndex(updates[1].col),
                              updates[1].value),
                      Tail(updates))

(* ------------------------- spreadsheet locator ------------------------ *)

\* One remote call or cache write of an invocation, with how it ended: "ok",
\* "HttpError" or "Error" (any other exception); a search ends "found",
\* "none", "HttpError" or "Error".
Call(op, id, data, res) == [op |-> op, id |-> id, data |-> data, res |-> res]

\* get_credentials: exits the process when the credentials file is missing.
CredentialsMissing(env) == env.fault = "nocreds"

CredentialsError == [success |-> FALSE, error |-> "Credentials not found"]

get_spreadsheet_id(workspace) == files[get_spreadsheet_id_file(workspace)]

\* The identifier saved to the default cache file, whatever the workspace.
SaveToDefaultFile(f, spreadsheet_id, workspace) ==
    [f EXCEPT ![DefaultIdFile] = spreadsheet_id]

save_spreadsheet_id(f, spreadsheet_id, workspace) ==
    [f EXCEPT ![get_spreadsheet_id_file(workspace)] = spreadsheet_id]

SaveCall(spreadsheet_id, workspace) ==
    Call("save", spreadsheet_id, get_spreadsheet_id_file(workspace), "ok")

\* A line of plain text on the error stream, and a JSON object on it.
StderrLine(text) == [json |-> FALSE, text |-> text]
StderrJson(text) == [json |-> TRUE, text |-> text]

\* The search without its `except HttpError`: the error propagates.
FindPropagating(workspace, env) ==
    LET name      == get_spreadsheet_name(workspace)
        call(res) == Call("search", NoFile, name, res)
        matches   == SearchMatches(drive, name)
        first     == IF env.pick \in matches THEN env.pick
                     ELSE CHOOSE i \in matches : \A j \in matches : i <= j
    IN  IF CredentialsMissing(env)
        THEN [status |-> "sysexit", id |-> NoFile, trace |-> << >>, stderr |-> << >>]
        ELSE IF env.fault = "search_http"
        THEN [status |-> "raise", id |-> NoFile, trace |-> <<call("HttpError")>>,
              stderr |-> << >>]
        ELSE IF env.fault = "search_other"
        THEN [status |-> "raise", id |-> NoFile, trace |-> <<call("Error")>>,
              stderr |-> << >>]
        ELSE IF matches = {}
        THEN [status |-> "ok", id |-> NoFile, trace |-> <<call("none")>>, stderr |-> << >>]
        ELSE [status |-> "ok", id |-> first,
              trace |-> <<Call("search", first, name, "found")>>, stderr |-> << >>]

\* Outcome of find_existing_spreadsheet: .status is "ok" (.id the file found,
\* NoFile for None), "raise" or "sysexit".
find_existing_spreadsheet(workspace, env) ==
    LET name      == get_spreadsheet_name(workspace)
        call(res) == Call("search", NoFile, name, res)
        matches   == SearchMatches(drive, name)
        first     == IF env.pick \in matches THEN env.pick
                     ELSE CHOOSE i \in matches : \A j \in matches : i <= j
    IN  IF CredentialsMissing(env)
        THEN [status |-> "sysexit", id |-> NoFile, trace |-> << >>, stderr |-> << >>]
        ELSE IF env.fault = "search_http"
        THEN [status |-> "ok", id |-> NoFile, trace |-> <<call("HttpError")>>,
              stderr |-> <<StderrLine("Drive search error")>>]
        ELSE IF env.fault = "search_other"
        THEN [status |-> "raise", id |-> NoFile, trace |-> <<call("Error")>>,
              stderr |-> << >>]
        ELSE IF matches = {}
        THEN [status |-> "ok", id |-> NoFile, trace |-> <<call("none")>>, stderr |-> << >>]
        ELSE [status |-> "ok", id |-> first,
              trace |-> <<Call("search", first, name, "found")>>, stderr |-> << >>]

\* Outcome of create_spreadsheet: the new spreadsheet, its header row, its styling.
create_spreadsheet(workspace, env) ==
    LET name   == get_spreadsheet_name(workspace)
        id     == IF FreshIds(drive) = {} THEN NoFile ELSE NewId(drive)
        bare   == [drive EXCEPT ![id] = [state |-> "live", name |-> name, rows |-> << >>]]
        ready  == [drive EXCEPT ![id] = [state |-> "live", name |-> name, rows |-> <<HEADERS>>]]
    IN  IF CredentialsMissing(env)
        THEN [status |-> "sysexit", id |-> NoFile, drive |-> drive, trace |-> << >>]
        ELSE IF id = NoFile
        THEN [status |-> "full", id |-> NoFile, drive |-> drive, trace |-> << >>]
        ELSE IF env.fault = "create"
        THEN [status |-> "raise", id |-> NoFile, drive |-> drive,
              trace |-> <<Call("create", NoFile, name, "HttpError")>>]
        ELSE IF env.fault = "headers"
        THEN [status |-> "raise", id |-> NoFile, drive |-> bare,
              trace |-> <<Call("create", id, name, "ok"),
                          Call("update", id, HEADERS, "HttpError")>>]
        ELSE [status |-> "ok", id |-> id, drive |-> ready,
              trace |-> <<Call("create", id, name, "ok"), Call("update", id, HEADERS, "ok"),
                          Call("style", id, << >>, "ok")>>]

\* The cache check with its `return` lost: a verified identifier is searched
\* for again.
VerifyCachedNoReturn(workspace, env) ==
    LET spreadsheet_id == get_spreadsheet_id(workspace)
        call(res) == Call("verify", spreadsheet_id, << >>, res)
    IN  IF spreadsheet_id = NoFile THEN [status |-> "miss", trace |-> << >>]
        ELSE IF CredentialsMissing(env) THEN [status |-> "sysexit", trace |-> << >>]
        ELSE IF env.fault = "verify_other"
        THEN [status |-> "raise", trace |-> <<call("Error")>>]
        ELSE IF env.fault = "verify_http" \/ drive[spreadsheet_id].state # "live"
        THEN [status |-> "miss", trace |-> <<call("HttpError")>>]
        ELSE [status |-> "miss", trace |-> <<call("ok")>>]

\* The cache check of ensure_spreadsheet: "hit" (verified), "miss" (no cached
\* identifier, or the verification raised HttpError), "raise" or "sysexit".
VerifyCached(workspace, env) ==
    LET spreadsheet_id == get_spreadsheet_id(workspace)
        call(res) == Call("verify", spreadsheet_id, << >>, res)
    IN  IF spreadsheet_id = NoFile THEN [status |-> "miss", trace |-> << >>]
        ELSE IF CredentialsMissing(env) THEN [status |-> "sysexit", trace |-> << >>]
        ELSE IF env.fault = "verify_other"
        THEN [status |-> "raise", trace |-> <<call("Error")>>]
        ELSE IF env.fault = "verify_http" \/ drive[spreadsheet_id].state # "live"
        THEN [status |-> "miss", trace |-> <<call("HttpError")>>]
        ELSE [status |-> "hit", trace |-> <<call("ok")>>]

\* Outcome of ensure_spreadsheet(workspace): .status "ok" with .id returned,
\* "raise" or "sysexit"; .files and .drive are the cache and the store it leaves.
ensure_spreadsheet(workspace, env) ==
    LET v == VerifyCached(workspace, env)
        s == find_existing_spreadsheet(workspace, env)
        c == create_spreadsheet(workspace, env)
        out(status, id, f, d, tr, err) ==
            [status |-> status, id |-> id, files |-> f, drive |-> d,
             trace |-> tr, stderr |-> err]
    IN  IF v.status = "hit"
        THEN out("ok", get_spreadsheet_id(workspace), files, drive, v.trace, << >>)
        ELSE IF v.status # "miss"
        THEN out(v.status, NoFile, files, drive, v.trace, << >>)
        ELSE IF s.status # "ok"
        THEN out(s.status, NoFile, files, drive, v.trace \o s.trace, s.stderr)
        ELSE IF s.id # NoFile
        THEN out("ok", s.id, save_spreadsheet_id(files, s.id, workspace), drive,
                 v.trace \o s.trace \o <<SaveCall(s.id, workspace)>>, s.stderr)
        ELSE IF c.status # "ok"
        THEN out(c.status, NoFile, files, c.drive, v.trace \o s.trace \o c.trace, s.stderr)
        ELSE out("ok", c.id, save_spreadsheet_id(files, c.id, workspace), c.drive,
                 v.trace \o s.trace \o c.trace \o <<SaveCall(c.id, workspace)>>,
                 s.stderr \o <<StderrLine("Created new spreadsheet")>>)

(* ------------------------------ commands ------------------------------ *)

\* How an invocation ends.  Finish: the handler returned after printing
\* `out`.  Uncaught: main's `except Exception` printed the error object to the
\* error stream and called sys.exit(1).  SysExit: get_credentials printed the
\* error object to standard output and called sys.exit(1), which `except
\* Exception` does not catch.
Finish(f, d, tr, err, out) ==
    [status |-> "done", files |-> f, drive |-> d, trace |-> tr, stderr |-> err,
     stdout |-> <<out>>, exit |-> 0]

\* The handler without its sys.exit(1).
UncaughtExitsZero(f, d, tr, err) ==
    [status |-> "done", files |-> f, drive |-> d, trace |-> tr,
     stderr |-> err \o <<StderrJson("success false, error str(e)")>>,
     stdout |-> << >>, exit |-> 0]

Uncaught(f, d, tr, err) ==
    [status |-> "done", files |-> f, drive |-> d, trace |-> tr,
     stderr |-> err \o <<StderrJson("success false, error str(e)")>>,
     stdout |-> << >>, exit |-> 1]

SysExit(f, d, tr, err) ==
    [status |-> "done", files |-> f, drive |-> d, trace |-> tr, stderr |-> err,
     stdout |-> <<CredentialsError>>, exit |-> 1]

\* The model's store has no identifier left to hand out: the invocation is
\* not taken.
Full == [status |-> "full"]

\* How an invocation ends when ensure_spreadsheet did not return.
Unresolved(r) ==
    IF r.status = "full" THEN Full
    ELSE IF r.status = "sysexit" THEN SysExit(r.files, r.drive, r.trace, r.stderr)
    ELSE Uncaught(r.files, r.drive, r.trace, r.stderr)

\* The values().append call of log_task, create_project and create_task, and
\* the printed confirmation.
AppendAndReport(r, row, report, env) ==
    IF env.fault = "write" \/ r.drive[r.id].state # "live"
    THEN Uncaught(r.files, r.drive, r.trace \o <<Call("append", r.id, row, "HttpError")>>,
                  r.stderr)
    ELSE Finish(r.files,
                [r.drive EXCEPT ![r.id].rows = AppendRow(@, row)],
                r.trace \o <<Call("append", r.id, row, "ok")>>, r.stderr,
                [success |-> TRUE, spreadsheet_id |-> r.id, report |-> report])

\* The project as given, empty or not.
ProjectAsGiven(project) == project

\* `project or "-"` with the em dash.
ProjectOrDash(project) == IF project = sEmpty THEN sDash ELSE project

log_task(workspace, project, task, description, est_hours, actual_hours, status, notes, now, env) ==
    LET r   == ensure_spreadsheet(Some(workspace), env)
        row == << strftime_date(now), strftime_time(now), workspace,
                  ProjectOrDash(project), task, description, est_hours, actual_hours,
                  status, notes >>
    IN  IF r.status # "ok" THEN Unresolved(r)
        ELSE AppendAndReport(r, row,
                 [kind |-> "logged", workspace |-> workspace, project |-> project,
                  task |-> task], env)

create_project(workspace, project, now, env) ==
    LET r   == ensure_spreadsheet(Some(workspace), env)
        row == << strftime_date(now), strftime_time(now), workspace, project,
                  sFolder \o project, sProjectCreated, sEmpty, sEmpty, sProject, sEmpty >>
    IN  IF r.status # "ok" THEN Unresolved(r)
        ELSE AppendAndReport(r, row,
                 [kind |-> "project", workspace |-> workspace, project |-> project,
                  task |-> sEmpty], env)

create_task(workspace, project, task, description, now, env) ==
    LET r   == ensure_spreadsheet(Some(workspace), env)
        row == << strftime_date(now), strftime_time(now), workspace,
                  ProjectOrDash(project), task, description, sEmpty, sEmpty,
                  sActive, sEmpty >>
    IN  IF r.status # "ok" THEN Unresolved(r)
        ELSE AppendAndReport(r, row,
                 [kind |-> "task", workspace |-> workspace, project |-> project,
                  task |-> task], env)

init_spreadsheet(env) ==
    LET r == ensure_spreadsheet(None, env)
    IN  IF r.status # "ok" THEN Unresolved(r)
        ELSE Finish(r.files, r.drive, r.trace, r.stderr,
                    [success |-> TRUE, spreadsheet_id |-> r.id])

NotConfigured == [success |-> FALSE, error |-> "No spreadsheet configured"]

\* fix_headers_command with fix_spreadsheet_headers: a row is inserted at the
\* top and HEADERS written into it.
fix_headers_command(env) ==
    LET spreadsheet_id == get_spreadsheet_id(None)
        get(res)    == Call("get", spreadsheet_id, << >>, res)
        insert(res) == Call("insertRow", spreadsheet_id, << >>, res)
    IN  IF spreadsheet_id = NoFile
        THEN Finish(files, drive, << >>, << >>, NotConfigured)
        ELSE IF CredentialsMissing(env) THEN SysExit(files, drive, << >>, << >>)
        ELSE IF env.fault = "read" \/ drive[spreadsheet_id].state # "live"
        THEN Uncaught(files, drive, <<get("HttpError")>>, << >>)
        ELSE IF env.fault = "write"
        THEN Uncaught(files, drive, <<get("ok"), insert("HttpError")>>, << >>)
        ELSE Finish(files,
                    [drive EXCEPT ![spreadsheet_id].rows = <<HEADERS>> \o @],
                    <<get("ok"), insert("ok"), Call("update", spreadsheet_id, HEADERS, "ok"),
                      Call("style", spreadsheet_id, << >>, "ok")>>,
                    <<StderrLine("Fixed headers on spreadsheet")>>,
                    [success |-> TRUE, spreadsheet_id |-> spreadsheet_id])

(* ----------------------------- row codec ------------------------------ *)

\* `row[k] if len(row) > k else ""`, the column counted from 1 here.
Cell(row, col) == IF Len(row) >= col THEN row[col] ELSE sEmpty

\* The dict list_tasks builds from a row.
DecodeRow(row) ==
    [date |-> Cell(row, 1), time |-> Cell(row, 2), workspace |-> Cell(row, 3),
     project |-> Cell(row, 4), task |-> Cell(row, 5), description |-> Cell(row, 6),
     est_hours |-> Cell(row, 7), actual_hours |-> Cell(row, 8),
     status |-> Cell(row, 9), notes |-> Cell(row, 10)]

\* The dict get_tasks builds from a row: the same, with the row number.
DecodeRowAt(row, idx) ==
    [row |-> idx, date |-> Cell(row, 1), time |-> Cell(row, 2),
     workspace |-> Cell(row, 3), project |-> Cell(row, 4), task |-> Cell(row, 5),
     description |-> Cell(row, 6), est_hours |-> Cell(row, 7),
     actual_hours |-> Cell(row, 8), status |-> Cell(row, 9), notes |-> Cell(row, 10)]

\* Python's s[k:] for any integer k.
SliceFrom(s, k) ==
    LET n     == Len(s)
        start == IF k < 0 THEN (IF n + k < 0 THEN 0 ELSE n + k)
                 ELSE (IF k > n THEN n ELSE k)
    IN  SubSeq(s, start + 1, n)

(* ------------------------------- reads -------------------------------- *)

\* The values().get call of list_tasks, get_tasks and update_task.
ReadFails(spreadsheet_id, env) ==
    env.fault = "read" \/ drive[spreadsheet_id].state # "live"

ReadCall(spreadsheet_id, res) == Call("read", spreadsheet_id, << >>, res)

\* The loop of list_tasks over its window.
RECURSIVE ListLoop(_)
ListLoop(window) ==
    IF window = << >> THEN << >>
    ELSE (IF Len(window[1]) >= 5 THEN <<DecodeRow(window[1])>> ELSE << >>)
            \o ListLoop(Tail(window))

\* The window taken among the rows with at least 5 cells.
ListTasksOfValid(rows, limit) ==
    IF Len(rows) <= 1 THEN << >>
    ELSE SliceFrom(ListLoop(Tail(rows)), -limit)

\* The tasks list_tasks prints for the rows read.
ListTasksOf(rows, limit) ==
    IF Len(rows) <= 1 THEN << >> ELSE ListLoop(SliceFrom(Tail(rows), -limit))

\* main calls list_tasks(args.limit): the workspace is always None.
list_tasks(limit, env) ==
    LET spreadsheet_id == get_spreadsheet_id(None)
    IN  IF spreadsheet_id = NoFile
        THEN Finish(files, drive, << >>, << >>, NotConfigured)
        ELSE IF CredentialsMissing(env) THEN SysExit(files, drive, << >>, << >>)
        ELSE IF ReadFails(spreadsheet_id, env)
        THEN Uncaught(files, drive, <<ReadCall(spreadsheet_id, "HttpError")>>, << >>)
        ELSE Finish(files, drive, <<ReadCall(spreadsheet_id, "ok")>>, << >>,
                    [success |-> TRUE,
                     tasks |-> ListTasksOf(drive[spreadsheet_id].rows, limit)])

\* The spreadsheet get_tasks and update_task read: the workspace's cached
\* identifier, else the default one.
CachedOrDefault(workspace) ==
    IF get_spreadsheet_id(Some(workspace)) # NoFile
    THEN get_spreadsheet_id(Some(workspace))
    ELSE get_spreadsheet_id(None)

\* `if status and ...`: a status was passed and is not the empty string.
Truthy(opt) == opt # None /\ opt[1] # sEmpty

\* A comparison that ignores case, which the code does not make here.
IsProjectRowAnyCase(row_status) == lower(row_status) = sProject

\* `row_status == "project"`: the row is a project header row.
IsProjectRow(row_status) == row_status = sProject

\* The loop of get_tasks from sheet row idx on.
RECURSIVE GetLoop(_, _, _, _)
GetLoop(rows, idx, workspace, status) ==
    IF idx > Len(rows) THEN << >>
    ELSE LET row           == rows[idx]
             row_workspace == Cell(row, 3)
             row_status    == Cell(row, 9)
             rest          == GetLoop(rows, idx + 1, workspace, status)
         IN  IF Len(row) < 5 THEN rest
             ELSE IF lower(row_workspace) # lower(workspace) THEN rest
             ELSE IF Truthy(status) /\ lower(row_status) # lower(status[1]) THEN rest
             ELSE IF IsProjectRow(row_status) THEN rest
             ELSE <<DecodeRowAt(row, idx)>> \o rest

GetTasksOf(rows, workspace, status) ==
    IF Len(rows) <= 1 THEN << >> ELSE GetLoop(rows, 2, workspace, status)

get_tasks(workspace, status, env) ==
    LET spreadsheet_id == CachedOrDefault(workspace)
    IN  IF spreadsheet_id = NoFile
        THEN Finish(files, drive, << >>, << >>, NotConfigured)
        ELSE IF CredentialsMissing(env) THEN SysExit(files, drive, << >>, << >>)
        ELSE IF ReadFails(spreadsheet_id, env)
        THEN Uncaught(files, drive, <<ReadCall(spreadsheet_id, "HttpError")>>, << >>)
        ELSE Finish(files, drive, <<ReadCall(spreadsheet_id, "ok")>>, << >>,
                    [success |-> TRUE,
                     tasks |-> GetTasksOf(drive[spreadsheet_id].rows, workspace, status),
                     workspace |-> workspace])

(* ------------------------------ update -------------------------------- *)

\* The search loop without its `break`: the last match wins.
RECURSIVE FindTaskRowLast(_, _, _, _)
FindTaskRowLast(rows, idx, workspace, task_name) ==
    IF idx > Len(rows) THEN 0
    ELSE LET row   == rows[idx]
             later == FindTaskRowLast(rows, idx + 1, workspace, task_name)
         IN  IF later # 0 THEN later
             ELSE IF /\ Len(row) >= 5
                     /\ lower(Cell(row, 3)) = lower(workspace)
                     /\ lower(Cell(row, 5)) = lower(task_name)
             THEN idx
             ELSE 0

\* The search loop of update_task from sheet row idx on: the row number
\* found, 0 for None.
RECURSIVE FindTaskRow(_, _, _, _)
FindTaskRow(rows, idx, workspace, task_name) ==
    IF idx > Len(rows) THEN 0
    ELSE LET row == rows[idx]
         IN  IF Len(row) < 5 THEN FindTaskRow(rows, idx + 1, workspace, task_name)
             ELSE IF /\ lower(Cell(row, 3)) = lower(workspace)
                     /\ lower(Cell(row, 5)) = lower(task_name)
             THEN idx
             ELSE FindTaskRow(rows, idx + 1, workspace, task_name)

\* The new note alone: the existing notes are overwritten.
NewNotesOverwrite(existing_notes, timestamp, notes) ==
    strip(<<"[">> \o timestamp \o <<"]", " ">> \o notes)

\* new_notes = f"{existing_notes}\n[{timestamp}] {notes}".strip()
NewNotes(existing_notes, timestamp, notes) ==
    strip(existing_notes \o <<"\n", "[">> \o timestamp \o <<"]", " ">> \o notes)

\* The status written one column to the left, over the actual hours.
BuildUpdatesStatusInH(rows, task_row, status, notes, description, actual_hours, now) ==
    (IF description # None THEN <<[col |-> "F", row |-> task_row, value |-> description[1]]>>
     ELSE << >>)
    \o (IF actual_hours # None
        THEN <<[col |-> "H", row |-> task_row, value |-> actual_hours[1]]>> ELSE << >>)
    \o (IF status # None THEN <<[col |-> "H", row |-> task_row, value |-> status[1]]>>
        ELSE << >>)
    \o (IF notes # None
        THEN <<[col |-> "J", row |-> task_row,
                value |-> strip(Cell(rows[task_row], 10) \o <<"\n", "[">>
                                \o strftime_stamp(now) \o <<"]", " ">> \o notes[1])]>>
        ELSE << >>)

UpdateEntry(letter, task_row, value) ==
    [col |-> letter, row |-> task_row, value |-> value]

\* The `updates` list update_task builds for the row found.
BuildUpdates(rows, task_row, status, notes, description, actual_hours, now) ==
    (IF description # None THEN <<UpdateEntry("F", task_row, description[1])>> ELSE << >>)
    \o (IF actual_hours # None THEN <<UpdateEntry("H", task_row, actual_hours[1])>>
        ELSE << >>)
    \o (IF status # None THEN <<UpdateEntry("I", task_row, status[1])>> ELSE << >>)
    \o (IF notes # None
        THEN <<UpdateEntry("J", task_row,
                   NewNotes(Cell(rows[task_row], 10), strftime_stamp(now), notes[1]))>>
        ELSE << >>)

TaskNotFound == [success |-> FALSE, error |-> "Task not found in workspace"]

update_task(workspace, task_name, status, notes, description, actual_hours, now, env) ==
    LET spreadsheet_id == CachedOrDefault(workspace)
        read       == ReadCall(spreadsheet_id, "ok")
        rows       == drive[spreadsheet_id].rows
        task_row   == FindTaskRow(rows, 2, workspace, task_name)
        updates    == BuildUpdates(rows, task_row, status, notes, description,
                                   actual_hours, now)
        batch(res) == Call("batchUpdate", spreadsheet_id, updates, res)
        report     == [success |-> TRUE, row |-> task_row, workspace |-> workspace,
                       task |-> task_name]
    IN  IF spreadsheet_id = NoFile
        THEN Finish(files, drive, << >>, << >>, NotConfigured)
        ELSE IF CredentialsMissing(env) THEN SysExit(files, drive, << >>, << >>)
        ELSE IF ReadFails(spreadsheet_id, env)
        THEN Uncaught(files, drive, <<ReadCall(spreadsheet_id, "HttpError")>>, << >>)
        ELSE IF task_row = 0 THEN Finish(files, drive, <<read>>, << >>, TaskNotFound)
        ELSE IF updates = << >> THEN Finish(files, drive, <<read>>, << >>, report)
        ELSE IF env.fault = "write"
        THEN Uncaught(files, drive, <<read, batch("HttpError")>>, << >>)
        ELSE Finish(files,
                    [drive EXCEPT ![spreadsheet_id].rows = ApplyUpdates(@, updates)],
                    <<read, batch("ok")>>, << >>, report)

(* ------------------------- initial conditions ------------------------- *)

Row(workspace, project, task, status, notes) ==
    TrimRow(<< sDate0, sTime0, workspace, project, task, sDesc, sEmpty, sEmpty,
               status, notes >>)

\* Rows a sheet may hold before the tool runs, top to bottom: rows the tool
\* wrote, rows edited by hand, a row cut short.
SampleRows ==
    << Row(sAcme, sWeb, sFixBug, sProjectCap, sPadded),
       Row(sTalkspresso, sWeb, sFixBug, sActive, sFirstNote),
       Row(sTalkLower, sDash, sFixBugLower, sActiveCap, sEmpty),
       Row(sTalkspresso, sWeb, sFolder \o sWeb, sProject, sEmpty),
       << sDate0, sTime0, sTalkspresso >> >>

\* The sample rows at the positions I, from position k on, in their order.
RECURSIVE Selected(_, _)
Selected(I, k) ==
    IF k > Len(SampleRows) THEN << >>
    ELSE (IF k \in I THEN <<SampleRows[k]>> ELSE << >>) \o Selected(I, k + 1)

\* The data rows the default spreadsheet may start with, as values().get
\* returns them: up to MaxInitRows of the sample rows.
InitSheets ==
    { Selected(I, 1) :
        I \in { J \in SUBSET (1..Len(SampleRows)) : Cardinality(J) <= MaxInitRows } }

Unused == [state |-> "unused", name |-> "", rows |-> << >>]
Deleted(name) == [state |-> "deleted", name |-> name, rows |-> << >>]
Live(name, data) == [state |-> "live", name |-> name, rows |-> <<HEADERS>> \o data]

NoCmd == [name |-> "none"]

\* The tool has not run yet.  Spreadsheet 1, when it exists, is the default
\* task log; spreadsheet 2, when it exists, is the Talkspresso task log.  A
\* cache file is absent or holds the identifier it was given by an earlier
\* run, which may since have been deleted remotely.
Init ==
    /\ steps = 0
    /\ cmd = NoCmd
    /\ stdout = << >>
    /\ stderr = << >>
    /\ exitCode = 0
    /\ trace = << >>
    /\ \E c1 \in {NoFile, 1}, c2 \in {NoFile, 2},
          s1 \in {"unused", "deleted", "live"}, s2 \in {"unused", "deleted", "live"},
          data \in InitSheets :
          /\ c1 # NoFile => s1 # "unused"
          /\ c2 # NoFile => s2 # "unused"
          /\ data # << >> => (c1 = 1 /\ s1 = "live" /\ c2 = NoFile /\ s2 = "unused")
          /\ files = [f \in IdFiles |->
                        IF f = DefaultIdFile THEN c1
                        ELSE IF f = get_spreadsheet_id_file(Some(sTalkspresso)) THEN c2
                        ELSE NoFile]
          /\ drive = [i \in Ids |->
                        IF i = 1 /\ s1 = "live" THEN Live(DEFAULT_SPREADSHEET_NAME, data)
                        ELSE IF i = 1 /\ s1 = "deleted" THEN Deleted(DEFAULT_SPREADSHEET_NAME)
                        ELSE IF i = 2 /\ s2 = "live"
                        THEN Live(WORKSPACE_SPREADSHEETS[sTalkspresso], << >>)
                        ELSE IF i = 2 /\ s2 = "deleted"
                        THEN Deleted(WORKSPACE_SPREADSHEETS[sTalkspresso])
                        ELSE Unused]

(* ------------------------------ actions ------------------------------- *)

\* One invocation: main parsed the command line c and its handler ended as o.
Invoke(c, o) ==
    /\ o.status = "done"
    /\ steps' = steps + 1
    /\ cmd' = c
    /\ files' = o.files
    /\ drive' = o.drive
    /\ stdout' = o.stdout
    /\ stderr' = o.stderr
    /\ exitCode' = o.exit
    /\ trace' = o.trace

\* What the environment does to one invocation: the fault met, and the file
\* a search for the title `name` lists first when several match.
Envs(faults, name) ==
    [fault : faults,
     pick : IF SearchMatches(drive, name) = {} THEN {NoFile} ELSE SearchMatches(drive, name)]
\* The same for a command that never searches.
NoSearch(faults) == [fault : faults, pick : {NoFile}]

ResolveFaults == Faults \ {"read"}
ReadFaults == {"none", "nocreds", "read"}
UpdateFaults == {"none", "nocreds", "read", "write"}

\* The faults tried with log and create-project, which resolve as init and
\* create-task do.
AppendFaults == {"none", "nocreds", "verify_http", "write"}

Log ==
    /\ steps < MaxSteps
    /\ \E args \in { [workspace |-> sAcme, project |-> sEmpty],
                     [workspace |-> sTalkspresso, project |-> sWeb] }, now \in Times :
       \E env \in Envs(AppendFaults, get_spreadsheet_name(Some(args.workspace))) :
        Invoke([name |-> "log", workspace |-> args.workspace, project |-> args.project,
                task |-> sDeploy, status |-> Some(sCompleted), notes |-> Some(sPadded),
                now |-> now],
               log_task(args.workspace, args.project, sDeploy, sDesc, sHours, sHours,
                        sCompleted, sPadded, now, env))

InitCmd ==
    /\ steps < MaxSteps
    /\ \E env \in Envs(ResolveFaults, get_spreadsheet_name(None)) :
        Invoke([name |-> "init"], init_spreadsheet(env))

FixHeaders ==
    /\ steps < MaxSteps
    /\ \E env \in NoSearch(UpdateFaults) :
        Invoke([name |-> "fix-headers"], fix_headers_command(env))

List ==
    /\ steps < MaxSteps
    /\ \E limit \in -1..MaxLimit, env \in NoSearch(ReadFaults) :
        Invoke([name |-> "list", limit |-> limit], list_tasks(limit, env))

CreateProject ==
    /\ steps < MaxSteps
    /\ \E workspace \in {sTalkspresso}, now \in Times :
       \E env \in Envs(AppendFaults, get_spreadsheet_name(Some(workspace))) :
        Invoke([name |-> "create-project", workspace |-> workspace, project |-> sWeb,
                now |-> now],
               create_project(workspace, sWeb, now, env))

CreateTask ==
    /\ steps < MaxSteps
    /\ \E args \in { [workspace |-> sTalkspresso, project |-> sEmpty],
                     [workspace |-> sTalkLower, project |-> sWeb] }, now \in Times :
       \E env \in Envs(ResolveFaults, get_spreadsheet_name(Some(args.workspace))) :
        Invoke([name |-> "create-task", workspace |-> args.workspace,
                project |-> args.project, task |-> sFixBug, now |-> now],
               create_task(args.workspace, args.project, sFixBug, sEmpty, now, env))

Statuses == {None, Some(sEmpty), Some(sActive), Some(sProject)}

GetTasks ==
    /\ steps < MaxSteps
    /\ \E workspace \in {sTalkLower, sAcme}, status \in Statuses, env \in NoSearch(ReadFaults) :
        Invoke([name |-> "get-tasks", workspace |-> workspace, status |-> status],
               get_tasks(workspace, status, env))

\* The optional fields of update-task tried: none, each alone, several, all.
UpdateFields ==
    { [status |-> None, notes |-> None, description |-> None, actual_hours |-> None],
      [status |-> Some(sDone), notes |-> None, description |-> None, actual_hours |-> None],
      [status |-> None, notes |-> Some(sSecond), description |-> None,
       actual_hours |-> None],
      [status |-> None, notes |-> Some(sPadded), description |-> None,
       actual_hours |-> None],
      [status |-> None, notes |-> None, description |-> Some(sNewDesc),
       actual_hours |-> Some(sHours)],
      [status |-> Some(sEmpty), notes |-> Some(sEmpty), description |-> Some(sEmpty),
       actual_hours |-> Some(sHours)] }

UpdateTask ==
    /\ steps < MaxSteps
    /\ \E workspace \in {sTalkLower, sAcme}, task \in {sFixBugLower},
       fields \in UpdateFields, now \in Times, env \in NoSearch(UpdateFaults) :
        Invoke([name |-> "update-task", workspace |-> workspace, task |-> task,
                status |-> fields.status, notes |-> fields.notes,
                description |-> fields.description,
                actual_hours |-> fields.actual_hours, now |-> now],
               update_task(workspace, task, fields.status, fields.notes,
                           fields.description, fields.actual_hours, now, env))

Next ==
    \/ Log
    \/ InitCmd
    \/ FixHeaders
    \/ List
    \/ CreateProject
    \/ CreateTask
    \/ GetTasks
    \/ UpdateTask

Spec == Init /\ [][Next]_vars

(* ------------------------ sequences of commands ----------------------- *)

\* A workspace in use: either nothing is set up yet, or the default task log
\* exists and is cached, with or without a cached Talkspresso task log beside
\* it.  No remote call fails.
SeqInit ==
    /\ steps = 0
    /\ cmd = NoCmd
    /\ stdout = << >>
    /\ stderr = << >>
    /\ exitCode = 0
    /\ trace = << >>
    /\ \E c1 \in {NoFile, 1}, c2 \in {NoFile, 2}, data \in InitSheets :
          /\ c1 = NoFile => (c2 = NoFile /\ data = << >>)
          /\ files = [f \in IdFiles |->
                        IF f = DefaultIdFile THEN c1
                        ELSE IF f = get_spreadsheet_id_file(Some(sTalkspresso)) THEN c2
                        ELSE NoFile]
          /\ drive = [i \in Ids |->
                        IF i = 1 /\ c1 = 1 THEN Live(DEFAULT_SPREADSHEET_NAME, data)
                        ELSE IF i = 2 /\ c2 = 2
                        THEN Live(WORKSPACE_SPREADSHEETS[sTalkspresso], << >>)
                        ELSE Unused]

\* The workspace name as the table spells it and in lower case.
SeqWorkspaces == {sTalkspresso, sTalkLower}

SeqLog ==
    /\ steps < MaxSeq
    /\ \E now \in Times :
       \E env \in Envs({"none"}, get_spreadsheet_name(Some(sAcme))) :
        Invoke([name |-> "log", workspace |-> sAcme, project |-> sEmpty,
                task |-> sDeploy, status |-> Some(sCompleted), notes |-> Some(sEmpty),
                now |-> now],
               log_task(sAcme, sEmpty, sDeploy, sDesc, sHours, sHours, sCompleted, sEmpty,
                        now, env))

SeqCreateProject ==
    /\ steps < MaxSeq
    /\ \E now \in Times :
       \E env \in Envs({"none"}, get_spreadsheet_name(Some(sTalkLower))) :
        Invoke([name |-> "create-project", workspace |-> sTalkLower, project |-> sWeb,
                now |-> now],
               create_project(sTalkLower, sWeb, now, env))

SeqCreateTask ==
    /\ steps < MaxSeq
    /\ \E workspace \in SeqWorkspaces, now \in Times :
       \E env \in Envs({"none"}, get_spreadsheet_name(Some(workspace))) :
        Invoke([name |-> "create-task", workspace |-> workspace, project |-> sWeb,
                task |-> sDeploy, now |-> now],
               create_task(workspace, sWeb, sDeploy, sEmpty, now, env))

SeqGetTasks ==
    /\ steps < MaxSeq
    /\ \E workspace \in SeqWorkspaces, env \in NoSearch({"none"}) :
        Invoke([name |-> "get-tasks", workspace |-> workspace, status |-> None],
               get_tasks(workspace, None, env))

SeqUpdateTask ==
    /\ steps < MaxSeq
    /\ \E workspace \in SeqWorkspaces, task \in {sDeploy, sFixBugLower}, now \in Times,
          env \in NoSearch({"none"}) :
        Invoke([name |-> "update-task", workspace |-> workspace, task |-> task,
                status |-> Some(sDone), notes |-> None, description |-> None,
                actual_hours |-> None, now |-> now],
               update_task(workspace, task, Some(sDone), None, None, None, now, env))

SeqNext ==
    \/ SeqLog
    \/ SeqCreateProject
    \/ SeqCreateTask
    \/ SeqGetTasks
    \/ SeqUpdateTask

SeqSpec == SeqInit /\ [][SeqNext]_vars

(* ------------------------- properties: helpers ------------------------ *)

\* The last invocation printed a result with success = true.
Succeeded == stdout # << >> /\ stdout[1].success

\* Equality ignoring case, character by character.
SameIgnoringCase(a, b) ==
    /\ Len(a) = Len(b)
    /\ \A i \in 1..Len(a) : LowerChar(a[i]) = LowerChar(b[i])

\* The calls of a trace with the given op.
CallsOf(tr, op) == { i \in 1..Len(tr) : tr[i].op = op }

\* The cells of a sheet row as the commands report them.
SameCells(task, row) ==
    /\ task.date = Cell(row, 1) /\ task.time = Cell(row, 2)
    /\ task.workspace = Cell(row, 3) /\ task.project = Cell(row, 4)
    /\ task.task = Cell(row, 5) /\ task.description = Cell(row, 6)
    /\ task.est_hours = Cell(row, 7) /\ task.actual_hours = Cell(row, 8)
    /\ task.status = Cell(row, 9) /\ task.notes = Cell(row, 10)

(* -------------------------------- C1 ---------------------------------- *)

\* The sheet positions get_tasks is to return: data rows with at least 5
\* cells, of the workspace, of the status when the filter applies, and not
\* project markers.
C1_Positions(rows, workspace, status, filtered) ==
    { i \in 2..Len(rows) :
        /\ Len(rows[i]) >= 5
        /\ SameIgnoringCase(rows[i][3], workspace)
        /\ filtered => SameIgnoringCase(Cell(rows[i], 9), status[1])
        /\ Cell(rows[i], 9) # sProject }

\* tasks lists exactly the rows at `positions`, top to bottom, each with its
\* 1-based sheet position in `row`.
C1_Lists(tasks, rows, positions) ==
    /\ Len(tasks) = Cardinality(positions)
    /\ \A k \in 1..Len(tasks) :
        /\ tasks[k].row \in positions
        /\ k > 1 => tasks[k - 1].row < tasks[k].row
        /\ SameCells(tasks[k], rows[tasks[k].row])

\* C1 (amended): get_tasks(W, S) returns exactly the data rows with at least
\* 5 cells whose workspace cell equals W ignoring case, whose status cell
\* equals S ignoring case when S is given and is not the empty string, and
\* whose status is not "project"; in sheet order, `row` being the 1-based
\* sheet position.  An empty S filters nothing.
C1_GetTasksExact ==
    (cmd.name = "get-tasks" /\ Succeeded) =>
        LET rows == drive[trace[1].id].rows
        IN  C1_Lists(stdout[1].tasks, rows,
                     C1_Positions(rows, cmd.workspace, cmd.status,
                                  cmd.status # None /\ cmd.status[1] # sEmpty))

\* C1 as stated: the status filter applies whenever S is given.
C1_AsStated ==
    (cmd.name = "get-tasks" /\ Succeeded) =>
        LET rows == drive[trace[1].id].rows
        IN  C1_Lists(stdout[1].tasks, rows,
                     C1_Positions(rows, cmd.workspace, cmd.status, cmd.status # None))

\* get_tasks with a status filter returned the second data row alone, having
\* passed over the first.
C1_Witness ==
    /\ cmd.name = "get-tasks" /\ Succeeded
    /\ cmd.status = Some(sActive)
    /\ Len(drive[trace[1].id].rows) = 3
    /\ Len(stdout[1].tasks) = 1
    /\ stdout[1].tasks[1].row = 3
    /\ stdout[1].tasks[1].status = sActiveCap

(* -------------------------------- C2 ---------------------------------- *)

\* The sheet positions of the data rows whose workspace cell and task cell
\* equal the given ones ignoring case.
C2_Matches(rows, workspace, task_name) ==
    { i \in 2..Len(rows) :
        /\ Len(rows[i]) >= 5
        /\ SameIgnoringCase(rows[i][3], workspace)
        /\ SameIgnoringCase(rows[i][5], task_name) }

\* The invocation about to end is an update-task that read its sheet.
C2_UpdateRead ==
    /\ cmd'.name = "update-task"
    /\ trace' # << >>
    /\ trace'[1].op = "read" /\ trace'[1].res = "ok"

\* C2: update_task addresses the topmost data row whose workspace and task
\* cells equal W and T ignoring case, by its 1-based sheet position; when there
\* is none it prints success:false with the not-found error and writes nothing.
C2_UpdateTargetsTopmost ==
    [][ C2_UpdateRead =>
          \A matches \in {C2_Matches(drive[trace'[1].id].rows, cmd'.workspace, cmd'.task)} :
              IF matches = {}
              THEN /\ stdout' = <<TaskNotFound>>
                   /\ ~stdout'[1].success
                   /\ exitCode' = 0
                   /\ CallsOf(trace', "batchUpdate") = {}
                   /\ drive' = drive
              ELSE \A top \in { i \in matches : \A j \in matches : i <= j } :
                       /\ stdout' # << >> => (stdout'[1].success /\ stdout'[1].row = top)
                       /\ \A b \in CallsOf(trace', "batchUpdate") :
                            \A e \in 1..Len(trace'[b].data) : trace'[b].data[e].row = top
        ]_vars

\* update_task("talkspresso", "fix bug") found the stored "Fix Bug" in row 2,
\* above a second match in row 3, and wrote to row 2.
C2_Witness ==
    /\ cmd.name = "update-task" /\ Succeeded
    /\ cmd.task = sFixBugLower
    /\ stdout[1].row = 2
    /\ Len(trace) = 2 /\ trace[2].op = "batchUpdate" /\ trace[2].data[1].row = 2
    /\ LET rows == drive[trace[1].id].rows
       IN  /\ rows[2][5] = sFixBug
           /\ C2_Matches(rows, cmd.workspace, cmd.task) = {2, 3}

(* -------------------------------- C3 ---------------------------------- *)

\* "[MM/DD HH:MM] " for a time, each number written with two digits.
C3_Pad2(n) == IF n < 10 THEN <<"0", DigitChar(n)>> ELSE <<DigitChar(n \div 10), DigitChar(n % 10)>>

C3_Prefix(now) ==
    <<"[">> \o C3_Pad2(now.month) \o <<"/">> \o C3_Pad2(now.day) \o <<" ">>
        \o C3_Pad2(now.hour) \o <<":">> \o C3_Pad2(now.minute) \o <<"]", " ">>

\* s without the whitespace before its first and after its last other character.
C3_Trimmed(s) ==
    LET solid == { i \in 1..Len(s) : ~IsSpace(s[i]) }
    IN  IF solid = {} THEN << >>
        ELSE SubSeq(s, CHOOSE i \in solid : \A j \in solid : i <= j,
                       CHOOSE i \in solid : \A j \in solid : j <= i)

\* s without the whitespace before its first other character.
C3_LeadTrimmed(s) ==
    LET solid == { i \in 1..Len(s) : ~IsSpace(s[i]) }
    IN  IF solid = {} THEN << >>
        ELSE SubSeq(s, CHOOSE i \in solid : \A j \in solid : i <= j, Len(s))

C3_IsPrefix(a, b) == Len(a) <= Len(b) /\ SubSeq(b, 1, Len(a)) = a

\* The invocation about to end is an update-task with --notes that submitted
\* its batch.
C3_NotesSubmitted ==
    /\ cmd'.name = "update-task"
    /\ cmd'.notes # None
    /\ Len(trace') = 2 /\ trace'[2].op = "batchUpdate"

\* The value submitted for column J.
C3_Written(data) == data[CHOOSE e \in 1..Len(data) : data[e].col = "J"].value

\* C3 (amended): update_task(notes=N) writes into the notes cell the text E,
\* newline, "[MM/DD HH:MM] ", N with the whitespace at both ends of the whole
\* removed (E the cell's text before).  So E less its leading whitespace is a
\* prefix of the new value; the value is exactly E, newline, prefix, N when E
\* is not empty and starts with no whitespace and N is not empty and ends with
\* none; and for an empty E the value is the prefix and N, with no newline.
C3_NotesAppended ==
    [][ C3_NotesSubmitted =>
          LET id      == trace'[2].id
              row     == trace'[2].data[1].row
              E       == Cell(drive[id].rows[row], 10)
              N       == cmd'.notes[1]
              full    == E \o <<"\n">> \o C3_Prefix(cmd'.now) \o N
              written == C3_Written(trace'[2].data)
          IN  /\ written = C3_Trimmed(full)
              /\ C3_IsPrefix(C3_LeadTrimmed(E), written)
              /\ (E # << >> /\ ~IsSpace(E[1]) /\ N # << >> /\ ~IsSpace(N[Len(N)]))
                    => written = full
              /\ (E = << >> /\ N # << >> /\ ~IsSpace(N[Len(N)]))
                    => written = C3_Prefix(cmd'.now) \o N
              /\ trace'[2].res = "ok" => Cell(drive'[id].rows[row], 10) = written
        ]_vars

\* C3 as stated: for every E and N the value written is E, newline, prefix, N.
C3_AsStated ==
    [][ C3_NotesSubmitted =>
          LET E == Cell(drive[trace'[2].id].rows[trace'[2].data[1].row], 10)
          IN  C3_Written(trace'[2].data)
                = E \o <<"\n">> \o C3_Prefix(cmd'.now) \o cmd'.notes[1]
        ]_vars

\* The example of the specification: "second" added at 02/02 11:11 to
\* "[01/01 10:00] first".
C3_Witness ==
    /\ cmd.name = "update-task" /\ Succeeded
    /\ cmd.notes = Some(sSecond)
    /\ Len(trace) = 2 /\ trace[2].op = "batchUpdate"
    /\ Cell(drive[trace[2].id].rows[stdout[1].row], 10)
         = sFirstNote \o <<"\n", "[", "0", "2", "/", "0", "2", " ", "1", "1", ":", "1", "1",
                           "]", " ">> \o sSecond

(* -------------------------------- C4 ---------------------------------- *)

\* The sheet list_tasks read.
ListedRows == drive[trace[1].id].rows

\* tasks is rows[from..] with some rows left out, the order kept.
RECURSIVE C4_InSheetOrder(_, _, _)
C4_InSheetOrder(tasks, rows, from) ==
    IF tasks = << >> THEN TRUE
    ELSE IF from > Len(rows) THEN FALSE
    ELSE IF SameCells(tasks[1], rows[from])
            /\ C4_InSheetOrder(Tail(tasks), rows, from + 1)
    THEN TRUE
    ELSE C4_InSheetOrder(tasks, rows, from + 1)

\* C4: list_tasks(limit=N) returns no more than N rows, in the order of the
\* sheet.  Stated for N >= 0 (no result has fewer than 0 rows): the code
\* returns every data row for N = 0.
C4_AtMostLimit ==
    (cmd.name = "list" /\ Succeeded /\ cmd.limit >= 0) =>
        /\ Len(stdout[1].tasks) <= cmd.limit
        /\ C4_InSheetOrder(stdout[1].tasks, ListedRows, 2)

(* -------------------------------- C5 ---------------------------------- *)

\* The k-th smallest element of a set of numbers.
C5_Nth(P, k) == CHOOSE i \in P : Cardinality({ j \in P : j <= i }) = k

\* tasks lists exactly the rows at `positions`, top to bottom.
C5_Lists(tasks, rows, positions) ==
    /\ Len(tasks) = Cardinality(positions)
    /\ \A k \in 1..Len(tasks) : SameCells(tasks[k], rows[C5_Nth(positions, k)])

\* The positions of the rows with at least 5 cells.
C5_Valid(rows) == { i \in 2..Len(rows) : Len(rows[i]) >= 5 }

\* C5 (amended): for N >= 1, list_tasks(limit=N) takes its window among the
\* data rows, not among the valid ones: the result is the rows having at least
\* 5 cells among the last min(N, D) data rows (D the number of data rows), so
\* a short row inside the window reduces the number of rows returned.
C5_WindowThenFilter ==
    (cmd.name = "list" /\ Succeeded /\ cmd.limit >= 1) =>
        C5_Lists(stdout[1].tasks, ListedRows,
                 { i \in C5_Valid(ListedRows) : i > Len(ListedRows) - cmd.limit })

\* C5 as stated, for N >= 1: the result is the last min(N, V) valid rows.
C5_AsStated ==
    (cmd.name = "list" /\ Succeeded /\ cmd.limit >= 1) =>
        LET valid == C5_Valid(ListedRows)
        IN  C5_Lists(stdout[1].tasks, ListedRows,
                     { i \in valid :
                         Cardinality({ j \in valid : j >= i }) <= cmd.limit })

\* list_tasks(limit=1) on a valid row followed by a short one returned nothing.
C5_Witness ==
    /\ cmd.name = "list" /\ Succeeded /\ cmd.limit = 1
    /\ Len(ListedRows) = 3
    /\ Len(ListedRows[2]) >= 5 /\ Len(ListedRows[3]) < 5
    /\ stdout[1].tasks = << >>

(* -------------------------------- C6 ---------------------------------- *)

\* The last row of the sheet the invocation appended to.
C6_Appended ==
    LET rows == drive[stdout[1].spreadsheet_id].rows IN rows[Len(rows)]

Resolving == {"log", "init", "create-project", "create-task"}

ResolvedWorkspace(c) == IF c.name = "init" THEN None ELSE Some(c.workspace)

\* The verification call of the trace succeeded / raised HttpError.
Verified(tr) == \E i \in CallsOf(tr, "verify") : tr[i].res = "ok"
VerifyFailed(tr) == \E i \in CallsOf(tr, "verify") : tr[i].res = "HttpError"

\* Cache check first, search second, creation third.
C7_Rank(op) == CASE op = "verify" -> 1 [] op = "search" -> 2 [] op = "create" -> 3

\* C7: ensure_spreadsheet tries cache, search, create in that order.  A cached
\* identifier is verified before anything else, and when it verifies it is
\* returned with no search, no creation and no cache write; a search is issued
\* only when the cache is absent or failed verification; a spreadsheet is
\* created only when, in addition, the search returned no match (which is also
\* how a search that raised HttpError counts).
C7_CacheSearchCreate ==
    [][ cmd'.name \in Resolving =>
          LET tr     == trace'
              cached == files[get_spreadsheet_id_file(ResolvedWorkspace(cmd'))]
              steps3 == CallsOf(tr, "verify") \cup CallsOf(tr, "search")
                            \cup CallsOf(tr, "create")
          IN  /\ \A i, j \in steps3 : i < j => C7_Rank(tr[i].op) < C7_Rank(tr[j].op)
              /\ (cached # NoFile /\ tr # << >>)
                    => (tr[1].op = "verify" /\ tr[1].id = cached)
              /\ cached = NoFile => CallsOf(tr, "verify") = {}
              /\ Verified(tr) =>
                    /\ CallsOf(tr, "search") = {}
                    /\ CallsOf(tr, "create") = {}
                    /\ CallsOf(tr, "save") = {}
                    /\ files' = files
                    /\ stdout' # << >> => stdout'[1].spreadsheet_id = cached
              /\ CallsOf(tr, "search") # {} => (cached = NoFile \/ VerifyFailed(tr))
              /\ CallsOf(tr, "create") # {} =>
                    \E s \in CallsOf(tr, "search") : tr[s].res \in {"none", "HttpError"}
        ]_vars

\* A stale cached identifier failed verification, the search found nothing
\* and a spreadsheet was created.
C7_Witness ==
    /\ cmd.name \in Resolving /\ Succeeded
    /\ Len(trace) >= 3
    /\ trace[1].op = "verify" /\ trace[1].res = "HttpError"
    /\ trace[2].op = "search" /\ trace[2].res = "none"
    /\ trace[3].op = "create" /\ trace[3].res = "ok"

(* -------------------------------- C8 ---------------------------------- *)

\* C8: when ensure_spreadsheet returns an identifier, the workspace's cache
\* file holds it afterwards: a verified one is left as it is, otherwise the
\* file is written once, with the identifier the search found or the creation
\* made; no other cache file changes and none is deleted.
C8_CacheHoldsReturned ==
    [][ cmd'.name \in Resolving =>
          LET tr    == trace'
              f     == get_spreadsheet_id_file(ResolvedWorkspace(cmd'))
              saves == CallsOf(tr, "save")
          IN  /\ Cardinality(saves) <= 1
              /\ \A g \in IdFiles : files[g] # NoFile => files'[g] # NoFile
              /\ \A g \in IdFiles \ {f} : files'[g] = files[g]
              /\ Verified(tr) => (saves = {} /\ files'[f] = files[f]
                                    /\ files[f] = tr[1].id)
              /\ \A s \in saves :
                    /\ tr[s].data = f
                    /\ files'[f] = tr[s].id
                    /\ \/ \E c \in CallsOf(tr, "create") : tr[c].id = tr[s].id
                       \/ /\ CallsOf(tr, "create") = {}
                          /\ \E q \in CallsOf(tr, "search") :
                                tr[q].res = "found" /\ tr[q].id = tr[s].id
              /\ (stdout' # << >> /\ stdout'[1].success)
                    => (stdout'[1].spreadsheet_id = files'[f] /\ files'[f] # NoFile)
              /\ CallsOf(tr, "append") # {} =>
                    \A a \in CallsOf(tr, "append") : tr[a].id = files'[f]
        ]_vars

\* A stale identifier in the Talkspresso cache file was replaced by the one
\* the resolution returned.
C8_Witness ==
    /\ cmd.name \in Resolving /\ Succeeded
    /\ cmd.name # "init" /\ cmd.workspace = sTalkspresso
    /\ trace[1].op = "verify" /\ trace[1].res = "HttpError"
    /\ files[get_spreadsheet_id_file(Some(sTalkspresso))] = stdout[1].spreadsheet_id
    /\ stdout[1].spreadsheet_id # trace[1].id

(* -------------------------------- C9 ---------------------------------- *)

\* The fixed columns of the fields update_task may write.
C9_Columns == { <<"description", "F", 6>>, <<"actual_hours", "H", 8>>,
                <<"status", "I", 9>>, <<"notes", "J", 10>> }

\* The columns of the fields the command line provides.
C9_Provided(c) ==
    { col \in C9_Columns :
        \/ col[1] = "description" /\ c.description # None
        \/ col[1] = "actual_hours" /\ c.actual_hours # None
        \/ col[1] = "status" /\ c.status # None
        \/ col[1] = "notes" /\ c.notes # None }

\* The invocation about to end is an update-task that found its row.
C9_UpdateFound ==
    /\ C2_UpdateRead
    /\ C2_Matches(drive[trace'[1].id].rows, cmd'.workspace, cmd'.task) # {}

\* C9: update_task submits, in one batched write, one cell per field provided
\* and no other, at the matched row and the field's fixed column (description
\* F, actual_hours H, status I, notes J); every other cell of the row, columns
\* A-E and G among them, every other row and every other spreadsheet are left
\* as they were; with no field provided no write is issued.
C9_WritesOnlyProvidedCells ==
    [][ C9_UpdateFound =>
          \A id \in {trace'[1].id} :
          \A rows \in {drive[id].rows} :
          \A after \in {drive'[id].rows} :
          \A matches \in {C2_Matches(rows, cmd'.workspace, cmd'.task)} :
          \A task_row \in { i \in matches : \A j \in matches : i <= j } :
          \A provided \in {C9_Provided(cmd')} :
          \A written \in {{ col[3] : col \in provided }} :
          \A batches \in {CallsOf(trace', "batchUpdate")} :
              /\ files' = files
              /\ \A i \in Ids \ {id} : drive'[i] = drive[i]
              /\ drive'[id].state = drive[id].state /\ drive'[id].name = drive[id].name
              /\ Len(after) = Len(rows)
              /\ \A r \in 1..Len(rows), c \in 1..10 :
                    (r # task_row \/ c \notin written)
                        => Cell(after[r], c) = Cell(rows[r], c)
              /\ CallsOf(trace', "append") = {}
              /\ IF provided = {}
                 THEN batches = {} /\ drive' = drive
                 ELSE /\ Cardinality(batches) = 1
                      /\ \A b \in batches :
                           LET data == trace'[b].data
                           IN  /\ Len(data) = Cardinality(provided)
                               /\ { data[e].col : e \in 1..Len(data) }
                                     = { col[2] : col \in provided }
                               /\ \A e \in 1..Len(data) : data[e].row = task_row
                               /\ \A e \in 1..Len(data) :
                                    /\ data[e].col = "F" => data[e].value = cmd'.description[1]
                                    /\ data[e].col = "H" => data[e].value = cmd'.actual_hours[1]
                                    /\ data[e].col = "I" => data[e].value = cmd'.status[1]
                               /\ trace'[b].res = "ok" =>
                                    \A e \in 1..Len(data), col \in provided :
                                        col[2] = data[e].col =>
                                            Cell(after[task_row], col[3]) = data[e].value
        ]_vars

\* update_task with a description and hours wrote F and H of the row found
\* and left its status and notes.
C9_Witness ==
    /\ cmd.name = "update-task" /\ Succeeded
    /\ cmd.description = Some(sNewDesc) /\ cmd.status = None /\ cmd.notes = None
    /\ Len(trace) = 2 /\ Len(trace[2].data) = 2
    /\ LET row == drive[trace[1].id].rows[stdout[1].row]
       IN  /\ Cell(row, 6) = sNewDesc /\ Cell(row, 8) = sHours
           /\ Cell(row, 9) = sActive /\ Cell(row, 10) = sFirstNote

(* -------------------------------- C10 --------------------------------- *)

\* The last call of the invocation raised and nothing caught it before main:
\* any exception other than HttpError, or an HttpError outside the cache
\* verification and the title search.
UncaughtRaise(tr) ==
    /\ tr # << >>
    /\ \/ tr[Len(tr)].res = "Error"
       \/ tr[Len(tr)].res = "HttpError" /\ tr[Len(tr)].op \notin {"verify", "search"}

\* The error stream holds a JSON error object.
JsonOnStderr == \E i \in 1..Len(stderr) : stderr[i].json

\* The result printed is one of the business failures.
BusinessFailure == stdout = <<TaskNotFound>> \/ stdout = <<NotConfigured>>

\* C10 (amended): the process exits with code 1 in exactly two cases.  A
\* command raises an exception that reaches main's handler: the JSON error
\* object is the last thing written to the error stream and nothing is
\* printed to standard output.  Or the credentials file is missing when the
\* command first needs a remote service: get_credentials prints the JSON
\* error object to standard output, nothing to the error stream, and exits
\* with code 1 itself.  Business failures print success:false and exit 0.
C10_ExitCodes ==
    cmd.name # "none" =>
        /\ exitCode \in {0, 1}
        /\ exitCode = 1 <=> (UncaughtRaise(trace) \/ stdout = <<CredentialsError>>)
        /\ UncaughtRaise(trace) =>
              (stdout = << >> /\ stderr # << >> /\ stderr[Len(stderr)].json)
        /\ stdout = <<CredentialsError>> => ~JsonOnStderr
        /\ exitCode = 0 => (Len(stdout) = 1 /\ ~JsonOnStderr)
        /\ BusinessFailure => (exitCode = 0 /\ ~stdout[1].success)

\* C10 as stated: exit code 1, with the JSON error object on the error
\* stream, exactly when a command raised an uncaught exception.
C10_AsStated ==
    cmd.name # "none" =>
        /\ exitCode = 1 <=> UncaughtRaise(trace)
        /\ exitCode = 1 => JsonOnStderr
        /\ BusinessFailure => exitCode = 0

\* An update-task whose batched write raised: exit code 1, the error object
\* on the error stream.
C10_Witness ==
    /\ cmd.name = "update-task"
    /\ exitCode = 1
    /\ Len(trace) = 2 /\ trace[2].op = "batchUpdate" /\ trace[2].res = "HttpError"
    /\ stdout = << >>
    /\ stderr # << >> /\ stderr[Len(stderr)].json

(* -------------------------------- C11 --------------------------------- *)

\* Workspace names tried: the keys of the table, the keys in other letter
\* case, a name unrelated to the table, the empty name.
C11_Names ==
    { sTalkspresso, sMiller, sTalkLower, lower(sMiller), sProjectCap \o sMiller, sAcme,
      sEmpty }

C11_NotKeys == C11_Names \ DOMAIN WORKSPACE_SPREADSHEETS

\* The workspace the last invocation resolved is not a key of the table.
C11_ResolvedOther ==
    /\ cmd.name \in {"log", "create-project", "create-task"}
    /\ cmd.workspace \in C11_NotKeys

\* C11: a workspace name that is not a key of WORKSPACE_SPREADSHEETS, a key in
\* other letter case included, gets the cache file and the display name of no
\* workspace at all, and a resolution for it searches, creates and caches
\* under them; the two keys get cache files and display names that differ from
\* each other and from the default.
C11_DefaultUnlessKey ==
    /\ \A w \in C11_NotKeys :
          /\ get_spreadsheet_id_file(Some(w)) = get_spreadsheet_id_file(None)
          /\ get_spreadsheet_name(Some(w)) = get_spreadsheet_name(None)
    /\ get_spreadsheet_id_file(None) = <<"task_log_sheet_id.txt">>
    /\ get_spreadsheet_name(None) = "Buzzbox Task Log"
    /\ Cardinality({ get_spreadsheet_id_file(None), get_spreadsheet_id_file(Some(sTalkspresso)),
                     get_spreadsheet_id_file(Some(sMiller)) }) = 3
    /\ Cardinality({ get_spreadsheet_name(None), get_spreadsheet_name(Some(sTalkspresso)),
                     get_spreadsheet_name(Some(sMiller)) }) = 3
    /\ C11_ResolvedOther =>
          \A i \in 1..Len(trace) :
              /\ trace[i].op = "save" => trace[i].data = <<"task_log_sheet_id.txt">>
              /\ trace[i].op \in {"search", "create"} => trace[i].data = "Buzzbox Task Log"

\* create-task for "talkspresso" found no cached identifier, searched for the
\* default title and cached what it created in the default cache file.
C11_Witness ==
    /\ cmd.name = "create-task" /\ cmd.workspace = sTalkLower /\ Succeeded
    /\ \E i \in CallsOf(trace, "create") : trace[i].data = DEFAULT_SPREADSHEET_NAME
    /\ \E i \in CallsOf(trace, "save") :
          trace[i].data = DefaultIdFile /\ files[DefaultIdFile] = trace[i].id
    /\ files[get_spreadsheet_id_file(Some(sTalkspresso))] = NoFile

(* -------------------------------- C12 --------------------------------- *)

\* The calls that read or write sheet data: the range read, the append, the
\* batched update, the header fix (row insertion and header write).
C12_DataOps == {"read", "append", "batchUpdate", "insertRow", "update"}

\* Call i of the trace uses an identifier that an earlier call of the same
\* invocation checked for existence (spreadsheets().get answered), or that an
\* earlier call of the invocation found or created, so that it is not the
\* cached one.
C12_Established(tr, i) ==
    \E j \in 1..(i - 1) :
        /\ tr[j].id = tr[i].id
        /\ \/ tr[j].op \in {"verify", "get"} /\ tr[j].res = "ok"
           \/ tr[j].op = "search" /\ tr[j].res = "found"
           \/ tr[j].op = "create" /\ tr[j].res = "ok"

\* C12: in every command a cached identifier is checked for existence before
\* it is used to read or write sheet data: no range read, append, batched
\* update or header fix is issued with a cached identifier that was not
\* verified earlier in the same invocation.
C12_VerifiedBeforeUse ==
    \A i \in 1..Len(trace) :
        trace[i].op \in C12_DataOps => C12_Established(trace, i)

(* -------------------------------- C13 --------------------------------- *)

\* The verification call of the invocation raised HttpError although the
\* spreadsheet exists: permission denied, server error, quota.
C13_OtherRemoteError ==
    /\ cmd.name \in Resolving
    /\ trace # << >>
    /\ trace[1].op = "verify" /\ trace[1].res = "HttpError"
    /\ drive[trace[1].id].state = "live"

\* C13: only an object-not-found outcome of the verification is caught; any
\* other remote error on the verification call reaches the top-level handler,
\* and no search, no creation and no cache write follows it.
C13_OnlyNotFoundCaught ==
    C13_OtherRemoteError =>
        /\ Len(trace) = 1
        /\ exitCode = 1
        /\ JsonOnStderr

(* -------------------------------- C14 --------------------------------- *)

\* The searches of the trace that failed with an HttpError.
C14_FailedSearches(tr) == { q \in CallsOf(tr, "search") : tr[q].res = "HttpError" }

\* C14: when the search by title fails with a remote error (HttpError) during
\* a resolution, the error is logged to the error stream and not propagated,
\* the search counts as having found nothing, and the resolution goes on to
\* create a new spreadsheet under the workspace's title and to cache its
\* identifier.
C14_SearchErrorFallsThrough ==
    cmd.name \in Resolving =>
        \A q \in C14_FailedSearches(trace) :
            \A f \in {get_spreadsheet_id_file(ResolvedWorkspace(cmd))} :
                /\ \E i \in 1..Len(stderr) :
                      stderr[i] = StderrLine("Drive search error")
                /\ ~stderr[Len(stderr)].json
                /\ q < Len(trace)
                /\ trace[q + 1].op = "create"
                /\ trace[q + 1].data = get_spreadsheet_name(ResolvedWorkspace(cmd))
                /\ trace[q + 1].res = "ok" =>
                      /\ drive[trace[q + 1].id].state = "live"
                      /\ drive[trace[q + 1].id].name = trace[q + 1].data
                      /\ \E s \in CallsOf(trace, "save") :
                            /\ s > q + 1
                            /\ trace[s].id = trace[q + 1].id
                            /\ trace[s].data = f
                      /\ files[f] = trace[q + 1].id
                /\ ~UncaughtRaise(trace) =>
                      /\ exitCode = 0
                      /\ stdout[1].success
                      /\ stdout[1].spreadsheet_id = trace[q + 1].id

\* init found a stale identifier in the cache, its search failed with an
\* HttpError, and it created a spreadsheet and cached it.
C14_Witness ==
    /\ cmd.name = "init" /\ Succeeded
    /\ Len(trace) >= 3
    /\ trace[1].op = "verify" /\ trace[1].res = "HttpError"
    /\ trace[2].op = "search" /\ trace[2].res = "HttpError"
    /\ trace[3].op = "create" /\ trace[3].res = "ok"
    /\ files[DefaultIdFile] = trace[3].id
    /\ stderr[1] = StderrLine("Drive search error")

(* -------------------------------- C15 --------------------------------- *)

C15_Appending == {"log", "create-project", "create-task"}

\* The columns that identify a row: date, time, workspace, project, task, and
\* the estimated hours, which no update writes.
C15_KeptColumns == {1, 2, 3, 4, 5, 7}

\* The rows that were in the sheet are where they were: the header row is
\* untouched and every row below it is at its position, cell for cell under
\* an appending command and in its identifying columns under update-task.
C15_RowsStay(before, after, appending) ==
    /\ Len(after) >= Len(before)
    /\ before # << >> => after[1] = before[1]
    /\ \A r \in 2..Len(before) :
          /\ appending => after[r] = before[r]
          /\ \A c \in C15_KeptColumns : Cell(after[r], c) = Cell(before[r], c)

\* The row an appending command submitted is made as its command makes it.
C15_RowAsBuilt(c, row) ==
    /\ Len(row) = Len(HEADERS)
    /\ row[1] = strftime_date(c.now) /\ row[2] = strftime_time(c.now)
    /\ row[3] = c.workspace
    /\ row[4] = (IF c.name # "create-project" /\ c.project = sEmpty THEN sDash
                 ELSE c.project)
    /\ c.name = "log" => (row[5] = c.task /\ row[9] = c.status[1])
    /\ c.name = "create-project" =>
          (row[5] = sFolder \o c.project /\ row[7] = sEmpty /\ row[8] = sEmpty
             /\ row[9] = sProject /\ row[10] = sEmpty)
    /\ c.name = "create-task" =>
          (row[5] = c.task /\ row[7] = sEmpty /\ row[8] = sEmpty
             /\ row[9] = sActive /\ row[10] = sEmpty)

\* C15: over any sequence of log, create-project, create-task and update-task
\* every step leaves the header row and the position of every row already in
\* a sheet as they were, and a successful log / create-project / create-task
\* adds exactly one row, of exactly 10 cells in header order, below the last
\* row of its sheet (create-project with status "project", create-task with
\* status "active" and empty hours and notes); so the row number get_tasks
\* reported still addresses the same row in a later update-task.
C15_RowsKeepPosition ==
    [][ /\ \A id \in Ids :
              /\ drive[id].state = "live" => drive'[id].state = "live"
              /\ C15_RowsStay(drive[id].rows, drive'[id].rows, cmd'.name # "update-task")
        /\ (cmd'.name \in C15_Appending /\ stdout' # << >> /\ stdout'[1].success) =>
              \A id \in {stdout'[1].spreadsheet_id} :
              \A appends \in {CallsOf(trace', "append")} :
                  /\ Cardinality(appends) = 1
                  /\ \A a \in appends :
                        /\ trace'[a].id = id
                        /\ C15_RowAsBuilt(cmd', trace'[a].data)
                        /\ drive'[id].rows[Len(drive'[id].rows)] = TrimRow(trace'[a].data)
                        /\ \A c \in 1..10 :
                              Cell(drive'[id].rows[Len(drive'[id].rows)], c)
                                 = trace'[a].data[c]
                  /\ drive'[id].rows[1] = HEADERS
                  /\ Len(drive'[id].rows) =
                        (IF drive[id].state = "live" THEN Len(drive[id].rows) + 1 ELSE 2)
                  /\ \A other \in Ids \ {id} : drive'[other] = drive[other]
        /\ (cmd'.name = "update-task" /\ stdout' # << >> /\ stdout'[1].success) =>
              \A id \in {trace'[1].id} :
                  /\ Len(drive'[id].rows) = Len(drive[id].rows)
                  /\ stdout'[1].row \in 2..Len(drive[id].rows)
                  /\ SameIgnoringCase(Cell(drive[id].rows[stdout'[1].row], 5), cmd'.task)
      ]_vars

\* After a create-task that put its row below them, update-task found the
\* task "Fix Bug" where it was before, in row 3 below the header and one other
\* row, and set the status there; the new row is row 4.
C15_Witness ==
    /\ steps = 2
    /\ cmd.name = "update-task" /\ cmd.task = sFixBugLower /\ Succeeded
    /\ stdout[1].row = 3
    /\ Len(drive[1].rows) = 4
    /\ Cell(drive[1].rows[2], 3) = sAcme
    /\ Cell(drive[1].rows[3], 5) = sFixBug /\ Cell(drive[1].rows[3], 9) = sDone
    /\ Cell(drive[1].rows[4], 5) = sDeploy /\ Cell(drive[1].rows[4], 9) = sActive
    /\ Len(drive[1].rows[4]) = 9

(* -------------------------------- C16 --------------------------------- *)

\* The rows of a sheet that create_task(W, project, T) wrote for a workspace
\* name W equal to `workspace` ignoring case: only create-task writes the
\* task "Deploy" under such a name in these sequences.
C16_Created(rows, workspace, task) ==
    { r \in 2..Len(rows) :
        /\ Cell(rows[r], 5) = task
        /\ SameIgnoringCase(Cell(rows[r], 3), workspace) }

\* A spreadsheet holds a row created for the workspace of the command about
\* to end, a get-tasks or an update-task of that task.
C16_ReadAfterCreate ==
    /\ cmd'.name \in {"get-tasks", "update-task"}
    /\ cmd'.name = "update-task" => cmd'.task = sDeploy
    /\ \E id \in Ids : C16_Created(drive[id].rows, cmd'.workspace, sDeploy) # {}

\* C16: reads follow writes across the letter case of a workspace name: after
\* create_task(W, project, T) succeeded, get_tasks(W') with W' equal to W
\* ignoring case returns a row with task T, and update_task(W', T, status=S)
\* finds that row and sets its status to S.
C16_ReadsFollowWrites ==
    [][ C16_ReadAfterCreate =>
          /\ stdout' # << >> /\ stdout'[1].success
          /\ cmd'.name = "get-tasks" =>
                \E k \in 1..Len(stdout'[1].tasks) : stdout'[1].tasks[k].task = sDeploy
          /\ cmd'.name = "update-task" =>
                \E id \in Ids :
                    \E r \in C16_Created(drive[id].rows, cmd'.workspace, sDeploy) :
                        /\ stdout'[1].row = r
                        /\ Cell(drive'[id].rows[r], 9) = cmd'.status[1]
      ]_vars

====
